---- MODULE Spec2Model ----
(***************************************************************************)
(* A model of baccarat.py: Card, Shoe, Hand, Player and Bank.              *)
(*                                                                         *)
(* Two specifications share the module.  Spec drives one Shoe object       *)
(* (add_decks, draw_cards); HandSpec drives one Hand object of class       *)
(* Player or Bank (add_cards, value, third_card).                          *)
(***************************************************************************)
EXTENDS Integers, Sequences, FiniteSets, TLC

VARIABLES
    num_decks,    \* Shoe._num_decks
    cards,        \* Shoe._cards, a list; pop() takes the last element
    shoe_call,    \* the last Shoe operation, with what it returned and printed
    hand_cls,     \* class of the hand object: "Player" or "Bank"
    hand_cards,   \* Hand._cards
    third_card_arg,   \* what the caller of a Bank holds as the Player's
                      \* third card: None, a Card, or something else
    hand_call     \* the last Hand operation, with its outcome

vars == <<num_decks, cards, shoe_call, hand_cls, hand_cards,
          third_card_arg, hand_call>>
shoe_vars == <<num_decks, cards, shoe_call>>
hand_vars == <<hand_cls, hand_cards, third_card_arg, hand_call>>

----------------------------------------------------------------------------
(* Bounds of the model *)

\* Shoe(num_decks) is constructed with num_decks in 1..MaxDecks
MaxDecks == 2
\* draw_cards(num_cards) is called with num_cards in 0..MaxDraw, or with
\* one more than the size of a full shoe
MaxDraw == 3
\* random.shuffle yields one of NumShuffles permutations
NumShuffles == 2
\* a hand holds at most MaxHandLen cards
MaxHandLen == 3

----------------------------------------------------------------------------
(* Python values *)

\* a rank is an int or a str
IntRank(n) == [isint |-> TRUE, n |-> n, s |-> ""]
StrRank(s) == [isint |-> FALSE, n |-> 0, s |-> s]

SUITS == <<"hearts", "spades", "clubs", "diamonds">>
RANKS == <<StrRank("ace"), IntRank(2), IntRank(3), IntRank(4), IntRank(5),
           IntRank(6), IntRank(7), IntRank(8), IntRank(9), IntRank(10),
           StrRank("jack"), StrRank("queen"), StrRank("king")>>

\* Card(RANKS[r], SUITS[s]): a Card object is the pair of its rank and suit,
\* here the number of that pair among the 52, counted suit by suit
Card(r, s) == (s - 1) * Len(RANKS) + r

\* Card.rank, Card.suit
CardRank(card) == RANKS[((card - 1) % Len(RANKS)) + 1]
CardSuit(card) == SUITS[((card - 1) \div Len(RANKS)) + 1]

\* Card.value
CardValue(card) ==
    IF CardRank(card).isint /\ CardRank(card).n \in 2..9 THEN CardRank(card).n
    ELSE IF ~CardRank(card).isint /\ CardRank(card).s = "ace" THEN 1
    ELSE 0

\* a slip: the sum is not reduced mod 10
CardAddNoMod(card, other) == CardValue(card) + other

\* Card.__add__ and Card.__radd__: card + other, other + card
CardAdd(card, other) == (CardValue(card) + other) % 10

\* values passed where a Card is expected
PyNone == [tag |-> "None"]
PyInt(n) == [tag |-> "int", n |-> n]
PyStr(s) == [tag |-> "str", s |-> s]
PyCard(card) == [tag |-> "Card", card |-> card]

\* isinstance(v, Card)
IsCard(v) == v.tag = "Card"

\* bool(v): None, 0 and "" are false; Card defines neither __bool__ nor
\* __len__, so every Card is true
Truthy(v) ==
    CASE v.tag = "None" -> FALSE
      [] v.tag = "int" -> v.n # 0
      [] v.tag = "str" -> v.s # ""
      [] v.tag = "Card" -> TRUE

----------------------------------------------------------------------------
(* Shoe *)

DeckSize == Len(SUITS) * Len(RANKS)

\* the list add_decks builds before shuffling it: for each deck, for each
\* suit, for each rank, one Card appended to old_cards
AppendDecks(old_cards, n) ==
    old_cards \o
    [k \in 1..(n * DeckSize) |->
        Card(((k - 1) % Len(RANKS)) + 1,
             (((k - 1) % DeckSize) \div Len(RANKS)) + 1)]

Reverse(seq) == [i \in 1..Len(seq) |-> seq[Len(seq) + 1 - i]]

\* random.shuffle(list): a permutation of the list, chosen by seed.  The
\* model draws the permutation from a family of NumShuffles: a rotation by
\* seed * Len(RANKS) places, reversed when seed is odd.
Seeds == 0..(NumShuffles - 1)
Rotate(seq, by) == [i \in 1..Len(seq) |-> seq[((i - 1 + by) % Len(seq)) + 1]]
Shuffle(seq, seed) ==
    IF seed % 2 = 1
    THEN Reverse(Rotate(seq, seed * Len(RANKS)))
    ELSE Rotate(seq, seed * Len(RANKS))

\* the lists add_decks can leave in self._cards, which starts from []: for
\* each num_decks and each seed, the decks appended to [] and shuffled
\* (computed once; ShuffledDecks[n][seed + 1] is the list)
ShuffledDecks ==
    <<>> \o [n \in 1..MaxDecks |->
               <<>> \o [k \in 1..NumShuffles |->
                          <<>> \o Shuffle(AppendDecks(<<>>, n), k - 1)]]

\* a slip: self._cards is not emptied before the decks are appended
AddDecksKeep(old_cards, n, seed) == old_cards \o ShuffledDecks[n][seed + 1]

\* Shoe.add_decks: self._cards = [], fill, shuffle; what old_cards held is
\* dropped
AddDecksList(old_cards, n, seed) == ShuffledDecks[n][seed + 1]

\* state of one run of draw_cards
DrawStart(pool) ==
    [pool |-> pool, drawn |-> <<>>, refills |-> 0, printed |-> 0,
     discarded |-> 0, refilled |-> <<>>, raised |-> ""]

\* a slip: the refill comes one card early, while a card is left
RefillEarly(st, n, seed) ==
    IF Len(st.pool) <= 1
    THEN [st EXCEPT !.pool = AddDecksList(st.pool, n, seed),
                    !.refills = @ + 1,
                    !.printed = @ + 1,
                    !.discarded = @ + Len(st.pool),
                    !.refilled = Append(@, AddDecksList(st.pool, n, seed))]
    ELSE st

\* a slip: the refill is made and nothing is printed
RefillSilently(st, n, seed) ==
    IF Len(st.pool) = 0
    THEN [st EXCEPT !.pool = AddDecksList(st.pool, n, seed),
                    !.refills = @ + 1,
                    !.discarded = @ + Len(st.pool),
                    !.refilled = Append(@, AddDecksList(st.pool, n, seed))]
    ELSE st

\* draw_cards, lines 122-124: if the pool is empty, add_decks() and
\* print('Refilling shoe...')
RefillIfEmpty(st, n, seed) ==
    IF Len(st.pool) = 0
    THEN [st EXCEPT !.pool = AddDecksList(st.pool, n, seed),
                    !.refills = @ + 1,
                    !.printed = @ + 1,
                    !.discarded = @ + Len(st.pool),
                    !.refilled = Append(@, AddDecksList(st.pool, n, seed))]
    ELSE st

\* a slip: pop(0), the card is taken from the front of the pool
PopFirst(st) ==
    IF Len(st.pool) = 0
    THEN [st EXCEPT !.raised = "IndexError"]
    ELSE [st EXCEPT !.pool = Tail(@),
                    !.drawn = Append(@, Head(st.pool))]

\* a slip: self._cards[-1], the card is read and stays in the pool
PopPeek(st) ==
    IF Len(st.pool) = 0
    THEN [st EXCEPT !.raised = "IndexError"]
    ELSE [st EXCEPT !.drawn = Append(@, st.pool[Len(st.pool)])]

\* draw_cards, line 125: cards_drawn.append(self._cards.pop()); pop() on an
\* empty list raises IndexError
PopCard(st) ==
    IF Len(st.pool) = 0
    THEN [st EXCEPT !.raised = "IndexError"]
    ELSE [st EXCEPT !.pool = SubSeq(@, 1, Len(@) - 1),
                    !.drawn = Append(@, st.pool[Len(st.pool)])]

\* draw_cards, the loop for i in range(num_cards); seeds[j] shuffles the
\* j-th refill of the call
RECURSIVE DrawLoop(_, _, _, _)
DrawLoop(left, st, n, seeds) ==
    IF left <= 0 \/ st.raised # "" THEN st
    ELSE DrawLoop(left - 1,
                  PopCard(RefillIfEmpty(st, n, seeds[st.refills + 1])),
                  n, seeds)

\* the refills a call draw_cards(num_cards) makes on a pool of r cards of an
\* n-deck shoe; the model enumerates one seed per refill
RefillsOf(num_cards, r, n) ==
    IF num_cards <= r THEN 0
    ELSE ((num_cards - r) + n * DeckSize - 1) \div (n * DeckSize)

DrawSizes(n) == (0..MaxDraw) \cup {n * DeckSize + 1}

\* the record of a call: the operation, what it found (the pool and
\* _num_decks before it ran) and what it did
ShoeCall(op, num_cards, pre, st) ==
    [op |-> op, num_cards |-> num_cards, pre_cards |-> pre,
     pre_num_decks |-> num_decks,
     cards_drawn |-> st.drawn, refills |-> st.refills, printed |-> st.printed,
     discarded |-> st.discarded, refilled |-> st.refilled,
     raised |-> st.raised]

\* Shoe(num_decks) for an int num_decks >= 1: __init__ stores it and calls
\* add_decks()
ShoeInit ==
    /\ num_decks \in 1..MaxDecks
    /\ \E seed \in Seeds :
          /\ cards = AddDecksList(<<>>, num_decks, seed)
          /\ shoe_call = ShoeCall("__init__", 0, <<>>,
                 [DrawStart(cards) EXCEPT
                     !.refills = 1, !.refilled = <<cards>>])

\* shoe.add_decks(), called directly
AddDecks ==
    /\ \E seed \in Seeds :
          LET new == AddDecksList(cards, num_decks, seed)
          IN /\ cards' = new
             /\ shoe_call' = ShoeCall("add_decks", 0, cards,
                    [DrawStart(new) EXCEPT
                        !.refills = 1,
                        !.discarded = Len(cards),
                        !.refilled = <<new>>])
    /\ UNCHANGED <<num_decks, hand_vars>>

\* shoe.draw_cards(num_cards)
DrawCards ==
    /\ \E num_cards \in DrawSizes(num_decks) :
       \E chosen \in [1..RefillsOf(num_cards, Len(cards), num_decks) -> Seeds] :
       \E st \in {DrawLoop(num_cards, DrawStart(cards), num_decks,
                            [j \in 1..(Len(chosen) + 1) |->
                                IF j <= Len(chosen) THEN chosen[j] ELSE 0])} :
          /\ cards' = st.pool
          /\ shoe_call' = ShoeCall("draw_cards", num_cards, cards, st)
    /\ UNCHANGED <<num_decks, hand_vars>>

----------------------------------------------------------------------------
(* Hand, Player, Bank *)

\* Hand.value: sum(self._cards), which starts from 0 and adds each card in
\* turn through Card.__radd__
RECURSIVE PySum(_, _)
PySum(acc, seq) ==
    IF seq = <<>> THEN acc ELSE PySum(CardAdd(Head(seq), acc), Tail(seq))

HandValue(held) == PySum(0, held)

\* Hand.add_cards: each item is asserted to be a Card and appended; the
\* first item that is not one raises TypeError, the items before it stay
RECURSIVE AddCardsLoop(_, _)
AddCardsLoop(held, items) ==
    IF items = <<>> THEN [cards |-> held, raised |-> ""]
    ELSE IF ~IsCard(Head(items)) THEN [cards |-> held, raised |-> "TypeError"]
    ELSE AddCardsLoop(Append(held, Head(items).card), Tail(items))

\* a slip: value < 5 for value <= 5
PlayerThirdCardBelow5(held) ==
    IF 0 <= HandValue(held) /\ HandValue(held) < 5 THEN TRUE ELSE FALSE

\* Player.third_card
PlayerThirdCardResult(held) ==
    IF 0 <= HandValue(held) /\ HandValue(held) <= 5 THEN TRUE ELSE FALSE

\* a slip: the row of Bank value 3 lists 8 too
third_card_rules_with_8 ==
    (3 :> {0, 1, 2, 3, 4, 5, 6, 7, 8, 9}) @@ (4 :> {2, 3, 4, 5, 6, 7}) @@
    (5 :> {4, 5, 6, 7}) @@ (6 :> {6, 7})

\* third_card_rules, the dict of Bank.third_card
third_card_rules ==
    (3 :> {0, 1, 2, 3, 4, 5, 6, 7, 9}) @@ (4 :> {2, 3, 4, 5, 6, 7}) @@
    (5 :> {4, 5, 6, 7}) @@ (6 :> {6, 7})

Returns(b) == [raised |-> "", ret |-> b]
Raises(e) == [raised |-> e, ret |-> FALSE]

\* Bank.third_card, the branch taken when player_third_card is true
BankWithThirdCard(held, player_third_card) ==
    IF ~IsCard(player_third_card)
    THEN Raises("TypeError")                        \* AssertionError caught
    ELSE IF 0 <= HandValue(held) /\ HandValue(held) <= 2 THEN Returns(TRUE)
    ELSE IF HandValue(held) \notin DOMAIN third_card_rules
    THEN Returns(FALSE)                             \* KeyError caught
    ELSE IF CardValue(player_third_card.card) \in third_card_rules[HandValue(held)]
    THEN Returns(TRUE)
    ELSE Returns(FALSE)

\* Bank.third_card, the branch taken when player_third_card is false
BankWithoutThirdCard(held) ==
    IF 0 <= HandValue(held) /\ HandValue(held) <= 5
    THEN Returns(TRUE) ELSE Returns(FALSE)

\* a slip: len(self._cards) >= 2 for len(self._cards) == 2
BankThirdCardAtLeast2(held, player_third_card) ==
    IF Len(held) >= 2
    THEN IF Truthy(player_third_card)
         THEN BankWithThirdCard(held, player_third_card)
         ELSE BankWithoutThirdCard(held)
    ELSE Returns(FALSE)

\* Bank.third_card
BankThirdCardResult(held, player_third_card) ==
    IF Len(held) = 2
    THEN IF Truthy(player_third_card)
         THEN BankWithThirdCard(held, player_third_card)
         ELSE BankWithoutThirdCard(held)
    ELSE Returns(FALSE)

\* the cards put into hands: every rank, one suit
HandCardSet == {Card(r, 1) : r \in 1..Len(RANKS)}

\* values passed that are not Cards
NonCards == {PyNone, PyInt(0), PyInt(5), PyStr(""), PyStr("king")}
Items == {PyCard(c) : c \in HandCardSet} \cup NonCards

SeqsUpTo(S, n) == UNION {[1..k -> S] : k \in 0..n}

HandCall(op, raised, ret, val) ==
    [op |-> op, raised |-> raised, ret |-> ret, val |-> val]

\* Player(cards) or Bank(cards): Hand.__init__ sets _cards = [] and calls
\* add_cards(cards); the object exists when add_cards did not raise.  The
\* caller of a Bank holds a value to pass to third_card; Player.third_card
\* takes none
HandInit ==
    /\ hand_cls \in {"Player", "Bank"}
    /\ \E given \in SeqsUpTo(HandCardSet, MaxHandLen) :
       \E r \in {AddCardsLoop(<<>>, [i \in DOMAIN given |-> PyCard(given[i])])} :
          /\ r.raised = ""
          /\ hand_cards = r.cards
    /\ third_card_arg \in IF hand_cls = "Bank" THEN Items ELSE {PyNone}
    /\ hand_call = HandCall("__init__", "", FALSE, 0)

\* hand.add_cards([third_card_arg])
AddCards ==
    /\ Len(hand_cards) < MaxHandLen
    /\ \E r \in {AddCardsLoop(hand_cards, <<third_card_arg>>)} :
          /\ hand_cards' = r.cards
          /\ hand_call' = HandCall("add_cards", r.raised, FALSE, 0)
    /\ UNCHANGED <<hand_cls, third_card_arg, shoe_vars>>

\* hand.value
Value ==
    /\ hand_call' = HandCall("value", "", FALSE, HandValue(hand_cards))
    /\ UNCHANGED <<hand_cls, hand_cards, third_card_arg, shoe_vars>>

\* player.third_card()
PlayerThirdCard ==
    /\ hand_cls = "Player"
    /\ hand_call' = HandCall("third_card", "",
                             PlayerThirdCardResult(hand_cards), 0)
    /\ UNCHANGED <<hand_cls, hand_cards, third_card_arg, shoe_vars>>

\* bank.third_card(player_third_card), with third_card_arg passed
BankThirdCard ==
    /\ hand_cls = "Bank"
    /\ \E r \in {BankThirdCardResult(hand_cards, third_card_arg)} :
          hand_call' = HandCall("third_card", r.raised, r.ret, 0)
    /\ UNCHANGED <<hand_cls, hand_cards, third_card_arg, shoe_vars>>

----------------------------------------------------------------------------
(* Specifications *)

\* one Shoe; the hand is an empty Player hand nothing is done with
Init ==
    /\ ShoeInit
    /\ hand_cls = "Player"
    /\ hand_cards = <<>>
    /\ third_card_arg = PyNone
    /\ hand_call = HandCall("__init__", "", FALSE, 0)

Next == AddDecks \/ DrawCards

Spec == Init /\ [][Next]_vars

\* one hand; the shoe is a one-deck Shoe drawn empty, after draw_cards(0),
\* and nothing is done with it
InitHand ==
    /\ HandInit
    /\ num_decks = 1
    /\ cards = <<>>
    /\ shoe_call = ShoeCall("draw_cards", 0, <<>>, DrawStart(<<>>))

NextHand == AddCards \/ Value \/ PlayerThirdCard \/ BankThirdCard

HandSpec == InitHand /\ [][NextHand]_vars

----------------------------------------------------------------------------
(* Properties of the Shoe, checked under Spec *)

\* number of times card occurs in the list
Count(seq, card) == Cardinality({i \in 1..Len(seq) : seq[i] = card})

AllCards == {Card(r, s) : r \in 1..Len(RANKS), s \in 1..Len(SUITS)}

\* a pool of n decks: n * 52 cards, every (rank, suit) pair n times
IsFullPool(seq, n) ==
    /\ Len(seq) = n * DeckSize
    /\ \A c \in AllCards : Count(seq, c) = n

\* the cards in the order pop() hands them out: the pool the call found,
\* from its end, then each pool a refill made, from its end
RECURSIVE PopOrder(_)
PopOrder(pools) ==
    IF pools = <<>> THEN <<>>
    ELSE (<<>> \o Reverse(Head(pools))) \o PopOrder(Tail(pools))

DrawStream == PopOrder(<<shoe_call.pre_cards>> \o shoe_call.refilled)

Remaining == Len(shoe_call.pre_cards)

\* C4: right after construction and right after every refill, direct or
\* inside draw_cards, whatever the pool held before, the pool holds
\* num_decks * 52 cards with every (rank, suit) pair num_decks times; and
\* num_decks never changes.
C4_FullPoolAfterFill ==
    /\ shoe_call.pre_num_decks = num_decks
    /\ \A i \in 1..Len(shoe_call.refilled) :
          IsFullPool(shoe_call.refilled[i], num_decks)
    /\ shoe_call.op \in {"__init__", "add_decks"} =>
          shoe_call.refilled = <<cards>>

\* a direct refill of a pool that was partly drawn
C4_Witness ==
    /\ shoe_call.op = "add_decks"
    /\ Remaining > 0
    /\ Remaining < num_decks * DeckSize
    /\ num_decks > 1

\* C5: draw_cards(n), n >= 0, on any pool, the empty one included, raises
\* nothing and returns exactly n cards, each taken from the end of the pool
\* in the order drawn; what is left in the pool is what was not drawn; for
\* n = 0 the result is empty.
C5_DrawReturnsNFromEnd ==
    shoe_call.op = "draw_cards" =>
        /\ shoe_call.raised = ""
        /\ Len(shoe_call.cards_drawn) = shoe_call.num_cards
        /\ shoe_call.num_cards = 0 => shoe_call.cards_drawn = <<>>
        /\ Len(DrawStream) >= shoe_call.num_cards
        /\ shoe_call.cards_drawn = SubSeq(DrawStream, 1, shoe_call.num_cards)
        /\ cards = Reverse(SubSeq(DrawStream, shoe_call.num_cards + 1,
                                  Len(DrawStream)))

\* a draw of at least one card from an empty pool
C5_Witness ==
    /\ shoe_call.op = "draw_cards"
    /\ Remaining = 0
    /\ shoe_call.num_cards > 0
    /\ Len(shoe_call.cards_drawn) = shoe_call.num_cards

\* C6: draw_cards(n) on a pool of r cards refills not at all when n <= r,
\* even when that empties the pool, and at least once when n > r; a refill
\* finds the pool empty, so it discards no undrawn card; and without a
\* refill the cards drawn are gone from the pool, which keeps the rest.
C6_RefillOnlyWhenEmpty ==
    shoe_call.op = "draw_cards" =>
        /\ shoe_call.num_cards <= Remaining <=> shoe_call.refills = 0
        /\ shoe_call.num_cards > Remaining => shoe_call.refills >= 1
        /\ shoe_call.discarded = 0
        /\ shoe_call.refills = 0 =>
              cards = SubSeq(shoe_call.pre_cards, 1,
                             Remaining - shoe_call.num_cards)

\* a draw of all the cards left: the pool ends empty and was not refilled
C6_Witness ==
    /\ shoe_call.op = "draw_cards"
    /\ shoe_call.num_cards = Remaining
    /\ Remaining > 0
    /\ cards = <<>>
    /\ shoe_call.refills = 0

\* C9, as claimed: every refill of a constructed Shoe, by draw_cards or by a
\* direct add_decks(), prints a notification.
C9_EveryRefillNotifies ==
    shoe_call.op \in {"add_decks", "draw_cards"} =>
        shoe_call.printed = shoe_call.refills

\* C9, amended: every refill draw_cards makes prints one notification; a
\* direct add_decks() refills and prints nothing.
C9_DrawRefillNotifies ==
    /\ shoe_call.op = "draw_cards" => shoe_call.printed = shoe_call.refills
    /\ shoe_call.op = "add_decks" =>
          shoe_call.refills = 1 /\ shoe_call.printed = 0

\* a draw that refilled twice
C9_Witness ==
    /\ shoe_call.op = "draw_cards"
    /\ shoe_call.refills = 2
    /\ shoe_call.printed = 2

\* C10, as claimed: after draw_cards(n) with n above the r cards left, the
\* pool holds num_decks * 52 * refills - n cards.
C10_RemainingIgnoresLeft ==
    (shoe_call.op = "draw_cards" /\ shoe_call.num_cards > Remaining) =>
        Len(cards) = num_decks * DeckSize * shoe_call.refills
                        - shoe_call.num_cards

\* C10, amended: the pool holds r + num_decks * 52 * refills - n cards.
C10_RemainingCountsLeft ==
    (shoe_call.op = "draw_cards" /\ shoe_call.num_cards > Remaining) =>
        Len(cards) = Remaining + num_decks * DeckSize * shoe_call.refills
                        - shoe_call.num_cards

\* a draw of more cards than the non-empty pool held
C10_Witness ==
    /\ shoe_call.op = "draw_cards"
    /\ Remaining > 0
    /\ shoe_call.num_cards > Remaining
    /\ shoe_call.refills >= 1

----------------------------------------------------------------------------
(* Properties of the hands, checked under HandSpec *)

\* the baccarat value of a card by its rank: ace 1, 2..9 the rank, 10,
\* jack, queen and king 0
BaccaratValue(card) ==
    LET r == ((card - 1) % Len(RANKS)) + 1
    IN IF r = 1 THEN 1 ELSE IF r \in 2..9 THEN r ELSE 0

RECURSIVE RawSum(_)
RawSum(held) ==
    IF held = <<>> THEN 0 ELSE BaccaratValue(Head(held)) + RawSum(Tail(held))

\* the Punto Banco tableau: Bank of value b draws against a Player third
\* card of value p
Tableau(b, p) ==
    \/ b \in 0..2
    \/ b = 3 /\ p \in {0, 1, 2, 3, 4, 5, 6, 7, 9}
    \/ b = 4 /\ p \in 2..7
    \/ b = 5 /\ p \in 4..7
    \/ b = 6 /\ p \in {6, 7}

BankAsked == hand_cls = "Bank" /\ hand_call.op = "third_card"

\* C1: for a Bank hand of exactly 2 cards and value b, third_card returns
\* true iff b is in 0..5 when the argument is None, and the tableau's answer
\* when the argument is a Card of value p; for b in 7..9 it returns false.
C1_BankTableau ==
    (BankAsked /\ Len(hand_cards) = 2) =>
        LET b == RawSum(hand_cards) % 10
        IN /\ third_card_arg = PyNone =>
                 /\ hand_call.raised = ""
                 /\ hand_call.ret <=> b \in 0..5
           /\ IsCard(third_card_arg) =>
                 /\ hand_call.raised = ""
                 /\ hand_call.ret <=>
                       Tableau(b, BaccaratValue(third_card_arg.card))
           /\ (third_card_arg = PyNone \/ IsCard(third_card_arg)) =>
                 (b \in 7..9 => ~hand_call.ret)

\* Bank of value 3 asked with a Player third card of value 8: no draw
C1_Witness ==
    /\ BankAsked
    /\ Len(hand_cards) = 2
    /\ RawSum(hand_cards) % 10 = 3
    /\ IsCard(third_card_arg)
    /\ BaccaratValue(third_card_arg.card) = 8
    /\ hand_call.ret = FALSE

\* C2: for a Player hand of 2 cards, third_card returns true iff the hand
\* value is in 0..5 and false iff it is in 6..9.
C2_PlayerDraws ==
    (hand_cls = "Player" /\ hand_call.op = "third_card"
        /\ Len(hand_cards) = 2) =>
        /\ hand_call.raised = ""
        /\ hand_call.ret <=> (RawSum(hand_cards) % 10) \in 0..5
        /\ ~hand_call.ret <=> (RawSum(hand_cards) % 10) \in 6..9

\* a Player hand of two cards summing to 15: value 5, draws
C2_Witness ==
    /\ hand_cls = "Player"
    /\ hand_call.op = "third_card"
    /\ Len(hand_cards) = 2
    /\ RawSum(hand_cards) = 15
    /\ hand_call.ret = TRUE

\* C3: for every hand, of any length and order, value is in 0..9 and is the
\* sum of the cards' baccarat values mod 10, though the code reduces after
\* each addition.
C3_ValueIsSumMod10 ==
    hand_call.op = "value" =>
        /\ hand_call.val \in 0..9
        /\ hand_call.val = RawSum(hand_cards) % 10

\* a hand of three cards whose values sum to 20 or more
C3_Witness ==
    /\ hand_call.op = "value"
    /\ Len(hand_cards) = 3
    /\ RawSum(hand_cards) >= 20
    /\ hand_call.val = RawSum(hand_cards) - 20

\* C7: for a Bank hand of any number of cards but 2, third_card returns
\* false whatever the hand's value and whatever is passed: None, a Card or
\* anything else.
C7_BankNotTwoCards ==
    (BankAsked /\ Len(hand_cards) # 2) =>
        hand_call.raised = "" /\ hand_call.ret = FALSE

\* a Bank hand of three cards and value 0..2, asked with a str
C7_Witness ==
    /\ BankAsked
    /\ Len(hand_cards) = 3
    /\ RawSum(hand_cards) % 10 \in 0..2
    /\ third_card_arg = PyStr("king")
    /\ hand_call.ret = FALSE

\* C8, as claimed: whenever the argument of Bank.third_card is not None and
\* not a Card, the call raises TypeError instead of returning a decision,
\* for every such argument and every Bank hand.  Stated on the hands of two
\* cards, the ones whose argument the code looks at (on the other hands the
\* call returns false, C7).
C8_NonCardRaises ==
    (BankAsked /\ Len(hand_cards) = 2
        /\ third_card_arg # PyNone /\ ~IsCard(third_card_arg)) =>
        hand_call.raised = "TypeError"

====
